---- MODULE Spec2Model ----
(***************************************************************************)
(* Model of bitmap::bitmap< ValueType > (include/bitmap/bitmap.hpp): an    *)
(* owning row-major 2D buffer made of a size_ and a std::vector data_.     *)
(* A program holds a bitmap a and, from time to time, a second bitmap b    *)
(* made from a (a copy, a move or a sub-region), and calls the public      *)
(* interface on them.                                                      *)
(* std::size_t arithmetic is arithmetic modulo 2^WordBits.                 *)
(***************************************************************************)
EXTENDS Integers, Sequences, FiniteSets, TLC

\* Largest ordinary dimension / coordinate handed to an operation.
MaxDim == 2
\* Largest number of points of a bitmap that is built.
MaxCells == 4
\* Width of std::size_t in the model.
WordBits == 4

Modulus == 2 ^ WordBits
\* The largest std::size_t: a dimension whose products overflow.
BigDim == Modulus - 1
Dims == (0 .. MaxDim) \cup {BigDim}
Val == {0, 1}
Slots == {"a", "b"}

VARIABLES
    bmp,    \* bmp[s]: the bitmap object s, [size_, data_]
    live,   \* the objects in scope: "a" always, "b" between its
            \* construction from a and the end of its scope
    last    \* the call that has just returned or thrown, with its
            \* arguments and what it did; NoLast between two calls

vars == <<bmp, live, last>>

Min(a, b) == IF a < b THEN a ELSE b

----------------------------------------------------------------------------
\* The geometric collaborators (rect.hpp, size.hpp, point.hpp).

Size(w, h) == [width |-> w, height |-> h]
Point(x, y) == [x |-> x, y |-> y]
Rect(x, y, w, h) == [x |-> x, y |-> y, width |-> w, height |-> h]

rect_size(rect) == Size(rect.width, rect.height)

\* size::point_count(): width * height in std::size_t.
size_point_count(size) == (size.width * size.height) % Modulus

\* size::is_positive(): both dimensions representable, the product does not
\* overflow.
is_positive(size) == size.width >= 0 /\ size.height >= 0
                     /\ size.width * size.height < Modulus

----------------------------------------------------------------------------
\* Accessors.

width(b) == b.size_.width
height(b) == b.size_.height
size(b) == b.size_

point_count(b) == (width(b) * height(b)) % Modulus

\* A pointer into the storage of a bitmap: null, or an offset from the
\* first element.
NullPtr == [null |-> TRUE, off |-> 0]
PtrAdd(p, n) == [p EXCEPT !.off = (p.off + n) % Modulus]

data(b) == IF Len(b.data_) = 0 THEN NullPtr ELSE [null |-> FALSE, off |-> 0]

\* begin() .. end(): the elements in storage order.
elements(b) == [i \in 1 .. Len(b.data_) |-> b.data_[i]]

\* data_pos with the height as the row stride.
data_pos_height(b, point) == (point.y * height(b) + point.x) % Modulus

data_pos(b, point) == (point.y * width(b) + point.x) % Modulus

\* is_point_in_bitmap with > for >=: the first column and row past the
\* edge pass.
is_point_in_bitmap_gt(image, point) ==
    ~ (  point.x < 0
      \/ point.x > width(image)
      \/ point.y < 0
      \/ point.y > height(image))

is_point_in_bitmap(image, point) ==
    ~ (  point.x < 0
      \/ point.x >= width(image)
      \/ point.y < 0
      \/ point.y >= height(image))

\* TRUE when the call throws std::out_of_range.
throw_if_out_of_range(b, point, DEBUG) ==
    DEBUG /\ ~ is_point_in_bitmap(b, point)

\* TRUE when the call throws std::out_of_range.
throw_if_size_is_negative(sz) == ~ is_positive(sz)

----------------------------------------------------------------------------
\* Constructors and resize, as functions to [outcome, obj].

Ok(b) == [outcome |-> "ok", obj |-> b]
Throw(e, b) == [outcome |-> e, obj |-> b]

bitmap_default == [size_ |-> Size(0, 0), data_ |-> << >>]

\* bitmap(size, value) that drops its value and fills with value_type().
bitmap_fill_default(sz, value) ==
    LET obj == [size_ |-> sz,
                data_ |-> [i \in 1 .. size_point_count(sz) |-> 0]]
    IN  IF throw_if_size_is_negative(obj.size_)
        THEN Throw("out_of_range", bitmap_default)
        ELSE Ok(obj)

bitmap_fill(sz, value) ==
    LET obj == [size_ |-> sz,
                data_ |-> [i \in 1 .. size_point_count(sz) |-> value]]
    IN  IF throw_if_size_is_negative(obj.size_)
        THEN Throw("out_of_range", bitmap_default)
        ELSE Ok(obj)

\* bitmap(size, first, last) that only rejects a range that is too short.
bitmap_seq_short(sz, seq) ==
    LET obj == [size_ |-> sz, data_ |-> [i \in 1 .. Len(seq) |-> seq[i]]]
    IN  IF throw_if_size_is_negative(obj.size_)
        THEN Throw("out_of_range", bitmap_default)
        ELSE IF Len(obj.data_) < size_point_count(obj.size_)
        THEN Throw("logic_error", bitmap_default)
        ELSE Ok(obj)

bitmap_seq(sz, seq) ==
    LET obj == [size_ |-> sz, data_ |-> [i \in 1 .. Len(seq) |-> seq[i]]]
    IN  IF throw_if_size_is_negative(obj.size_)
        THEN Throw("out_of_range", bitmap_default)
        ELSE IF Len(obj.data_) # size_point_count(obj.size_)
        THEN Throw("logic_error", bitmap_default)
        ELSE Ok(obj)

bitmap_wh(w, h, value) == bitmap_fill(Size(w, h), value)

\* std::vector::resize(n, value): the first min(old, n) elements stay, the
\* elements appended take value.
vector_resize(d, n, value) ==
    [i \in 1 .. n |-> IF i <= Len(d) THEN d[i] ELSE value]

\* resize without throw_if_size_is_negative.
resize_unchecked(b, sz, value) ==
    Ok([size_ |-> sz,
        data_ |-> vector_resize(b.data_, size_point_count(sz), value)])

resize(b, sz, value) ==
    IF throw_if_size_is_negative(sz)
    THEN Throw("out_of_range", b)
    ELSE Ok([size_ |-> sz,
             data_ |-> vector_resize(b.data_, size_point_count(sz), value)])

----------------------------------------------------------------------------
\* Element access.

\* do_point: data_[data_pos(point)].  The element read, [defined, value];
\* an index outside the vector is undefined behaviour.
do_point(b, point) ==
    LET pos == data_pos(b, point)
    IN  IF pos < Len(b.data_)
        THEN [defined |-> TRUE, pos |-> pos, value |-> b.data_[pos + 1]]
        ELSE [defined |-> FALSE, pos |-> pos, value |-> 0]

\* operator()(point) const
at_const(b, point, DEBUG) ==
    IF throw_if_out_of_range(b, point, DEBUG)
    THEN [outcome |-> "out_of_range", value |-> 0, touched |-> {}]
    ELSE LET e == do_point(b, point)
         IN  IF e.defined
             THEN [outcome |-> "ok", value |-> e.value, touched |-> {e.pos}]
             ELSE [outcome |-> "undefined", value |-> 0, touched |-> {e.pos}]

\* operator()(point) = value
at_assign(b, point, value, DEBUG) ==
    IF throw_if_out_of_range(b, point, DEBUG)
    THEN [outcome |-> "out_of_range", obj |-> b, touched |-> {}]
    ELSE LET e == do_point(b, point)
         IN  IF e.defined
             THEN [outcome |-> "ok",
                   obj |-> [b EXCEPT !.data_[e.pos + 1] = value],
                   touched |-> {e.pos}]
             ELSE [outcome |-> "undefined", obj |-> b, touched |-> {e.pos}]

----------------------------------------------------------------------------
\* Sub-region extraction.

Sub(a, b) == (a - b + Modulus) % Modulus

\* std::copy(first, first + n, out) from the storage src into acc.data.
std_copy(acc, src, first, n, out) ==
    [data |->
        [i \in 1 .. Len(acc.data) |->
            IF /\ ~ first.null /\ ~ out.null
               /\ i - 1 >= out.off /\ i - 1 < out.off + n
               /\ first.off + (i - 1 - out.off) < Len(src)
            THEN src[first.off + (i - 1 - out.off) + 1]
            ELSE acc.data[i]],
     reads |-> acc.reads \cup {first.off + k : k \in 0 .. n - 1},
     writes |-> acc.writes \cup {out.off + k : k \in 0 .. n - 1},
     nullderef |-> acc.nullderef \/ (n > 0 /\ (first.null \/ out.null))]

RECURSIVE copy_rows(_, _, _, _, _, _)
RECURSIVE copy_rows_le(_, _, _, _, _, _)

\* The row loop with y <= y_end: one row too many.
copy_rows_le(b, result, acc, y, y_end, x_end) ==
    IF ~ (y <= y_end)
    THEN acc
    ELSE LET in_offset == PtrAdd(data(b), (y * width(b)) % Modulus)
             out_offset == PtrAdd(data(result), (y * width(result)) % Modulus)
         IN  copy_rows_le(b, result,
                          std_copy(acc, b.data_, in_offset, x_end, out_offset),
                          y + 1, y_end, x_end)

copy_rows(b, result, acc, y, y_end, x_end) ==
    IF ~ (y < y_end)
    THEN acc
    ELSE LET in_offset == PtrAdd(data(b), (y * width(b)) % Modulus)
             out_offset == PtrAdd(data(result), (y * width(result)) % Modulus)
         IN  copy_rows(b, result,
                       std_copy(acc, b.data_, in_offset, x_end, out_offset),
                       y + 1, y_end, x_end)

NoAccess == [reads |-> {}, writes |-> {}, nullderef |-> FALSE]

\* [outcome, obj, reads, writes, nullderef, subs]: the bitmap returned, the
\* offsets read in the source and written in the result, and the
\* subtractions <<minuend, subtrahend>> evaluated.
subbitmap(b, rect, value) ==
    LET r == bitmap_fill(rect_size(rect), value)
        result == r.obj
    IN  IF r.outcome # "ok"
        THEN [outcome |-> r.outcome, obj |-> bitmap_default,
              acc |-> NoAccess, subs |-> {}]
        ELSE IF width(b) <= rect.x \/ height(b) <= rect.y
        THEN [outcome |-> "ok", obj |-> result, acc |-> NoAccess, subs |-> {}]
        ELSE LET x_end == Min(rect.width, Sub(width(b), rect.x))
                 y_end == Min(rect.height, Sub(height(b), rect.y))
                 acc == copy_rows(b, result,
                                  [data |-> result.data_, reads |-> {},
                                   writes |-> {}, nullderef |-> FALSE],
                                  0, y_end, x_end)
                 ub == \/ acc.nullderef
                       \/ \E o \in acc.reads : o >= Len(b.data_)
                       \/ \E o \in acc.writes : o >= Len(result.data_)
             IN  [outcome |-> IF ub THEN "undefined" ELSE "ok",
                  obj |-> [result EXCEPT !.data_ = acc.data],
                  acc |-> [reads |-> acc.reads, writes |-> acc.writes,
                           nullderef |-> acc.nullderef],
                  subs |-> {<<width(b), rect.x>>, <<height(b), rect.y>>}]

----------------------------------------------------------------------------
\* The inputs handed to the operations.

Sizes == {Size(w, h) : w \in Dims, h \in Dims}
Coords == 0 .. MaxDim
Points == {Point(x, y) : x \in Coords, y \in Coords}
Rects == {Rect(x, y, w, h) : x \in Coords, y \in Coords, w \in Dims, h \in Dims}

\* The ranges [first, last) handed to the range constructor with size sz:
\* every sequence of the length sz asks for, and one sequence of every
\* other length.
SeqsFor(sz) ==
    (IF size_point_count(sz) <= MaxCells
     THEN [1 .. size_point_count(sz) -> Val] ELSE {})
        \cup {[i \in 1 .. n |-> 0] : n \in 0 .. MaxCells + 1}

\* A bitmap that is built has at most MaxCells points.
Buildable(sz) == is_positive(sz) => sz.width * sz.height <= MaxCells

----------------------------------------------------------------------------
\* The record of the last call.

NoLast ==
    [op |-> "none", dst |-> "a", src |-> "a", outcome |-> "ok",
     size |-> Size(0, 0), value |-> 0, point |-> Point(0, 0),
     rect |-> Rect(0, 0, 0, 0), seq |-> << >>, debug |-> FALSE,
     got |-> 0, touched |-> {}, acc |-> NoAccess, subs |-> {}]

Alone == live = {"a"}
Paired == live = {"a", "b"}
Ready == last = NoLast

Init ==
    /\ bmp = [s \in Slots |-> bitmap_default]
    /\ live = {"a"}
    /\ last = NoLast

\* a = bitmap()
DefaultCtor ==
    /\ Ready /\ Alone
    /\ bmp' = [bmp EXCEPT !["a"] = bitmap_default]
    /\ last' = [NoLast EXCEPT !.op = "bitmap()"]
    /\ UNCHANGED live

\* a = bitmap(size, value); a constructor that throws leaves no object
\* behind and a keeps what it held.
CtorFill(sz, value) ==
    LET r == bitmap_fill(sz, value)
    IN  /\ Ready /\ Alone
        /\ Buildable(sz)
        /\ bmp' = IF r.outcome = "ok" THEN [bmp EXCEPT !["a"] = r.obj] ELSE bmp
        /\ last' = [NoLast EXCEPT !.op = "bitmap(size,value)",
                                  !.outcome = r.outcome,
                                  !.size = sz, !.value = value]
        /\ UNCHANGED live

\* a = bitmap(width, height, value)
CtorWH(w, h, value) ==
    LET r == bitmap_wh(w, h, value)
    IN  /\ Ready /\ Alone
        /\ Buildable(Size(w, h))
        /\ bmp' = IF r.outcome = "ok" THEN [bmp EXCEPT !["a"] = r.obj] ELSE bmp
        /\ last' = [NoLast EXCEPT !.op = "bitmap(width,height,value)",
                                  !.outcome = r.outcome,
                                  !.size = Size(w, h), !.value = value]
        /\ UNCHANGED live

\* a = bitmap(size, first, last)
CtorSeq(sz, seq) ==
    LET r == bitmap_seq(sz, seq)
    IN  /\ Ready /\ Alone
        /\ Buildable(sz)
        /\ bmp' = IF r.outcome = "ok" THEN [bmp EXCEPT !["a"] = r.obj] ELSE bmp
        /\ last' = [NoLast EXCEPT !.op = "bitmap(size,first,last)",
                                  !.outcome = r.outcome,
                                  !.size = sz, !.seq = seq]
        /\ UNCHANGED live

\* Member-wise copy of src.
copy_of(src) == [size_ |-> src.size_, data_ |-> src.data_]

\* What a member-wise move leaves in src: the size is a pair of integers
\* and is copied, the vector has handed its storage over and is empty.
moved_from(src) == [size_ |-> src.size_, data_ |-> << >>]

\* bitmap b(a)
CopyCtor ==
    /\ Ready /\ Alone
    /\ bmp' = [bmp EXCEPT !["b"] = copy_of(bmp["a"])]
    /\ live' = {"a", "b"}
    /\ last' = [NoLast EXCEPT !.op = "copy", !.dst = "b", !.src = "a"]

\* bitmap b(std::move(a))
MoveCtor ==
    /\ Ready /\ Alone
    /\ bmp' = [bmp EXCEPT !["b"] = copy_of(bmp["a"]),
                          !["a"] = moved_from(bmp["a"])]
    /\ live' = {"a", "b"}
    /\ last' = [NoLast EXCEPT !.op = "move", !.dst = "b", !.src = "a"]

\* dst = src
CopyAssign(dst, src) ==
    /\ Ready /\ Paired
    /\ dst # src
    /\ bmp' = [bmp EXCEPT ![dst] = copy_of(bmp[src])]
    /\ last' = [NoLast EXCEPT !.op = "copy", !.dst = dst, !.src = src]
    /\ UNCHANGED live

\* dst = std::move(src); the moved-from vector is empty, as after the move
\* constructor, in the standard libraries.
MoveAssign(dst, src) ==
    /\ Ready /\ Paired
    /\ dst # src
    /\ bmp' = [bmp EXCEPT ![dst] = copy_of(bmp[src]),
                          ![src] = moved_from(bmp[src])]
    /\ last' = [NoLast EXCEPT !.op = "move", !.dst = dst, !.src = src]
    /\ UNCHANGED live

\* s.resize(size, value)
Resize(s, sz, value) ==
    LET r == resize(bmp[s], sz, value)
    IN  /\ Ready /\ s \in live
        /\ Buildable(sz)
        /\ bmp' = [bmp EXCEPT ![s] = r.obj]
        /\ last' = [NoLast EXCEPT !.op = "resize", !.dst = s, !.src = s,
                                  !.outcome = r.outcome, !.size = sz,
                                  !.value = value]
        /\ UNCHANGED live

\* a.resize(width, height, value)
ResizeWH(w, h, value) ==
    LET r == resize(bmp["a"], Size(w, h), value)
    IN  /\ Ready /\ Alone
        /\ Buildable(Size(w, h))
        /\ bmp' = [bmp EXCEPT !["a"] = r.obj]
        /\ last' = [NoLast EXCEPT !.op = "resize",
                                  !.outcome = r.outcome, !.size = Size(w, h),
                                  !.value = value]
        /\ UNCHANGED live

\* value = a(x, y), in a build with (DEBUG) or without the range check
Read(point, DEBUG) ==
    LET r == at_const(bmp["a"], point, DEBUG)
    IN  /\ Ready /\ Alone
        /\ last' = [NoLast EXCEPT !.op = "read",
                                  !.outcome = r.outcome, !.point = point,
                                  !.debug = DEBUG, !.got = r.value,
                                  !.touched = r.touched]
        /\ UNCHANGED <<bmp, live>>

\* A write that lands in every bitmap in scope, as if they shared storage.
WriteShared(s, point, value, DEBUG) ==
    LET r == at_assign(bmp[s], point, value, DEBUG)
    IN  /\ Ready /\ s \in live
        /\ bmp' = [t \in Slots |->
                     IF t \in live
                     THEN at_assign(bmp[t], point, value, DEBUG).obj
                     ELSE bmp[t]]
        /\ last' = [NoLast EXCEPT !.op = "write", !.dst = s, !.src = s,
                                  !.outcome = r.outcome, !.point = point,
                                  !.value = value, !.debug = DEBUG,
                                  !.touched = r.touched]
        /\ UNCHANGED live

\* s(x, y) = value
Write(s, point, value, DEBUG) ==
    LET r == at_assign(bmp[s], point, value, DEBUG)
    IN  /\ Ready /\ s \in live
        /\ bmp' = [bmp EXCEPT ![s] = r.obj]
        /\ last' = [NoLast EXCEPT !.op = "write", !.dst = s, !.src = s,
                                  !.outcome = r.outcome, !.point = point,
                                  !.value = value, !.debug = DEBUG,
                                  !.touched = r.touched]
        /\ UNCHANGED live

\* bitmap b = a.subbitmap(rect, value); when the call does not return there
\* is no b.
Subbitmap(rect, value) ==
    LET r == subbitmap(bmp["a"], rect, value)
    IN  /\ Ready /\ Alone
        /\ Buildable(rect_size(rect))
        /\ bmp' = IF r.outcome = "ok" THEN [bmp EXCEPT !["b"] = r.obj] ELSE bmp
        /\ live' = IF r.outcome = "ok" THEN {"a", "b"} ELSE live
        /\ last' = [NoLast EXCEPT !.op = "subbitmap", !.dst = "b",
                                  !.src = "a", !.outcome = r.outcome,
                                  !.rect = rect, !.value = value,
                                  !.acc = r.acc, !.subs = r.subs]

\* ~bitmap(): the scope of b ends.
EndScope ==
    /\ Ready /\ Paired
    /\ bmp' = [bmp EXCEPT !["b"] = bitmap_default]
    /\ live' = {"a"}
    /\ UNCHANGED last

\* The caller has taken the result, or caught the exception, and goes on.
Proceed ==
    /\ ~ Ready
    /\ last' = NoLast
    /\ UNCHANGED <<bmp, live>>

Construct ==
    /\ Ready
    /\ \/ /\ Alone
          /\ \/ DefaultCtor
             \/ \E sz \in Sizes, v \in Val : CtorFill(sz, v)
             \/ \E w \in Dims, h \in Dims, v \in Val : CtorWH(w, h, v)
             \/ \E sz \in Sizes : \E seq \in SeqsFor(sz) : CtorSeq(sz, seq)
             \/ CopyCtor
       \/ /\ Paired
          /\ \E d \in Slots, s \in Slots : CopyAssign(d, s)

Mutate ==
    /\ Ready
    /\ \/ \E s \in live, sz \in Sizes, v \in Val : Resize(s, sz, v)
       \/ \E s \in live, p \in Points, v \in Val, D \in BOOLEAN :
             Write(s, p, v, D)
       \/ /\ Alone
          /\ \E w \in Dims, h \in Dims, v \in Val : ResizeWH(w, h, v)

Observe ==
    \/ /\ Ready
       /\ \/ /\ Alone
             /\ \/ \E p \in Points, D \in BOOLEAN : Read(p, D)
                \/ \E r \in Rects, v \in Val : Subbitmap(r, v)
          \/ EndScope
    \/ Proceed

Moves ==
    /\ Ready
    /\ \/ MoveCtor
       \/ \E d \in Slots, s \in Slots : MoveAssign(d, s)

Next ==
    \/ Construct
    \/ Mutate
    \/ Observe
    \/ Moves

Spec == Init /\ [][Next]_vars

\* The programs that never move a bitmap.
NextNoMove ==
    \/ Construct
    \/ Mutate
    \/ Observe

SpecNoMove == Init /\ [][NextNoMove]_vars

----------------------------------------------------------------------------
\* Vocabulary of the properties.

\* The element at row y, column x of the row-major element sequence.
Cell(b, x, y) == elements(b)[y * width(b) + x + 1]

\* The storage of b holds exactly width * height elements.
Consistent(b) == Len(b.data_) = width(b) * height(b)

\* The product of the two dimensions is representable.
Representable(sz) == sz.width * sz.height < Modulus

SizeTaking == {"bitmap(size,value)", "bitmap(width,height,value)",
               "bitmap(size,first,last)", "resize"}

\* The overlap extent of rect with the bitmap b.
OverlapW(b, rect) == Min(rect.width, width(b) - rect.x)
OverlapH(b, rect) == Min(rect.height, height(b) - rect.y)
OriginInside(b, rect) == rect.x < width(b) /\ rect.y < height(b)

----------------------------------------------------------------------------
\* C1: whenever rect's origin lies inside the source, every cell (i, j) of
\* a.subbitmap(rect, fill) within the overlap extent equals the source cell
\* (rect.x + i, rect.y + j).
C1_SubbitmapCopiesRect ==
    (last.op = "subbitmap" /\ last.outcome = "ok"
        /\ OriginInside(bmp["a"], last.rect))
    => \A i \in 0 .. OverlapW(bmp["a"], last.rect) - 1,
          j \in 0 .. OverlapH(bmp["a"], last.rect) - 1 :
            Cell(bmp["b"], i, j)
                = Cell(bmp["a"], last.rect.x + i, last.rect.y + j)

\* C2: after a successful resize(newSize, v) every element equals v, the
\* size is newSize and the point count is newSize.point_count().
C2_ResizeFillsEverything ==
    (last.op = "resize" /\ last.outcome = "ok")
    => /\ \A i \in 1 .. Len(elements(bmp[last.dst])) :
              elements(bmp[last.dst])[i] = last.value
       /\ size(bmp[last.dst]) = last.size
       /\ point_count(bmp[last.dst]) = size_point_count(last.size)

\* C3: after every public operation the storage of every bitmap in scope,
\* a moved-from one included, holds exactly width * height elements.
C3_StorageMatchesSize == \A s \in live : Consistent(bmp[s])

\* C4 (as claimed): for every source, rect and fill, subbitmap returns
\* without error a bitmap of size rect.size() whose cells outside the
\* overlap extent equal fill; all cells equal fill when rect's origin lies
\* outside the source.
FillOutsideOverlap ==
    /\ last.outcome = "ok"
    /\ size(bmp["b"]) = rect_size(last.rect)
    /\ Len(elements(bmp["b"])) = last.rect.width * last.rect.height
    /\ \A i \in 0 .. last.rect.width - 1, j \in 0 .. last.rect.height - 1 :
          (  ~ OriginInside(bmp["a"], last.rect)
          \/ i >= OverlapW(bmp["a"], last.rect)
          \/ j >= OverlapH(bmp["a"], last.rect))
          => Cell(bmp["b"], i, j) = last.value

C5_CheckedAccessState ==
    (last.op \in {"read", "write"} /\ last.debug)
    => /\ (last.outcome = "out_of_range")
              <=> (  last.point.x >= width(bmp[last.dst])
                  \/ last.point.y >= height(bmp[last.dst]))
       /\ last.outcome = "out_of_range" => last.touched = {}

C5_CheckedAccessStep ==
    (last'.op \in {"read", "write"} /\ last'.outcome = "out_of_range")
    => bmp' = bmp /\ live' = live

C5_CheckedAccess == [] C5_CheckedAccessState /\ [][C5_CheckedAccessStep]_vars

\* A write at (width, 0) of a bitmap with points is rejected.
C5_Witness ==
    /\ last.op = "write" /\ last.debug /\ last.outcome = "out_of_range"
    /\ width(bmp[last.dst]) > 0 /\ height(bmp[last.dst]) > 0
    /\ last.point = Point(width(bmp[last.dst]), 0)

\* C6: a size-taking constructor or resize given a size whose
\* width * height overflows throws out_of_range and changes no bitmap; no
\* bitmap in scope ever has a size whose product overflows.
C6_OverflowState ==
    /\ (last.op \in SizeTaking /\ ~ Representable(last.size))
           => last.outcome = "out_of_range"
    /\ \A s \in live : Representable(size(bmp[s]))

C6_OverflowStep ==
    (last'.op \in SizeTaking /\ ~ Representable(last'.size))
    => bmp' = bmp /\ live' = live

C7_RangeConstructor ==
    (last.op = "bitmap(size,first,last)" /\ Representable(last.size))
    => /\ (last.outcome = "logic_error")
              <=> Len(last.seq) # last.size.width * last.size.height
       /\ Len(last.seq) = last.size.width * last.size.height
              => /\ last.outcome = "ok"
                 /\ size(bmp["a"]) = last.size
                 /\ Len(elements(bmp["a"])) = Len(last.seq)
                 /\ \A i \in 1 .. Len(last.seq) :
                       elements(bmp["a"])[i] = last.seq[i]

\* A bitmap was built from a range of several elements that are not all
\* equal.
C7_Witness ==
    /\ last.op = "bitmap(size,first,last)" /\ last.outcome = "ok"
    /\ Len(last.seq) >= 3
    /\ last.seq[1] # last.seq[2]
    /\ elements(bmp["a"]) = last.seq

\* C8: in a program of constructions, resizes and element accesses, for
\* every in-range (x, y): data_pos(x, y) = y * width + x, it is below
\* point_count(), distinct points have distinct offsets, access at (x, y)
\* reads the element at that offset of begin() .. end(), and a write at
\* (x, y) changes exactly that element.
InRange(b) == {p \in Points : p.x < width(b) /\ p.y < height(b)}

C8_OffsetState ==
    /\ \A s \in live : \A p \in InRange(bmp[s]) :
          /\ data_pos(bmp[s], p) = p.y * width(bmp[s]) + p.x
          /\ data_pos(bmp[s], p) < point_count(bmp[s])
          /\ \A q \in InRange(bmp[s]) :
                data_pos(bmp[s], q) = data_pos(bmp[s], p) => q = p
          /\ at_const(bmp[s], p, TRUE).outcome = "ok"
          /\ at_const(bmp[s], p, TRUE).value = Cell(bmp[s], p.x, p.y)
    /\ (last.op = "read" /\ last.point \in InRange(bmp["a"]))
          => /\ last.outcome = "ok"
             /\ last.got = Cell(bmp["a"], last.point.x, last.point.y)

C8_OffsetStep ==
    (last'.op = "write" /\ last'.point \in InRange(bmp[last'.dst]))
    => LET s == last'.dst
           p == last'.point
       IN  /\ last'.outcome = "ok"
           /\ size(bmp'[s]) = size(bmp[s])
           /\ elements(bmp'[s])
                = [elements(bmp[s]) EXCEPT ![p.y * width(bmp[s]) + p.x + 1]
                                              = last'.value]
           /\ at_const(bmp'[s], p, TRUE).value = last'.value

C9_Step ==
    /\ last'.op = "subbitmap" => bmp'["a"] = bmp["a"]
    /\ last'.op = "copy"
          => /\ bmp'[last'.src] = bmp[last'.src]
             /\ bmp'[last'.dst] = bmp[last'.src]
    /\ last'.op \in {"write", "resize"}
          => \A s \in Slots \ {last'.dst} : bmp'[s] = bmp[s]

C9_Independent == [][C9_Step]_vars

\* Both bitmaps are in scope, of one size, and a write has made them differ.
C9_Witness ==
    /\ Paired
    /\ last.op = "write" /\ last.outcome = "ok"
    /\ size(bmp["a"]) = size(bmp["b"])
    /\ bmp["a"] # bmp["b"]

\* C10: subbitmap evaluates width - rect.x and height - rect.y only when
\* they do not underflow, reads source offsets below the source's
\* point_count() only and writes result offsets below
\* rect.size().point_count() only; on a source whose storage holds
\* width * height elements every offset lies in the storage it is used on.
C10_SubbitmapInBounds ==
    last.op = "subbitmap"
    => /\ \A p \in last.subs : p[1] >= p[2]
       /\ \A o \in last.acc.reads : o >= 0 /\ o < point_count(bmp["a"])
       /\ \A o \in last.acc.writes :
             o >= 0 /\ o < size_point_count(rect_size(last.rect))
       /\ Consistent(bmp["a"])
             => /\ ~ last.acc.nullderef
                /\ last.outcome # "undefined"
                /\ \A o \in last.acc.reads : o < Len(bmp["a"].data_)
                /\ last.outcome = "ok"
                      => \A o \in last.acc.writes : o < Len(bmp["b"].data_)

\* A sub-region reaching to the last row of the source was copied.
C10_Witness ==
    /\ last.op = "subbitmap" /\ last.outcome = "ok"
    /\ height(bmp["a"]) >= 2
    /\ last.rect.y = 0
    /\ last.rect.height >= height(bmp["a"])
    /\ Cardinality(last.acc.reads) >= 2

====
